---- MODULE Spec2Model ----
(***************************************************************************)
(* git-sync (src/pull.py): one GitSync run reconciles a local clone with   *)
(* origin/<branch>.  The model holds the script's own state (its control   *)
(* position, the lists it computes, its log lines, the commands it hands   *)
(* to the shell) and the part of the git repository and of the file system *)
(* that those commands read and write.                                     *)
(*                                                                         *)
(* Text is a sequence of tokens.  A token is either a piece of text with   *)
(* no blank in it, or the blank, or one timestamp `__YYYYMMDDHHMMSS`.      *)
(***************************************************************************)
EXTENDS Naturals, Sequences, FiniteSets, TLC

\* ------------------------------------------------------------------ bounds
MaxTime == 2
MaxRuns == 2
MaxCommits == 1

\* ------------------------------------------------------------------ text
Ch(c) == [c |-> c, t |-> 0]
Ts(t) == [c |-> "__ts", t |-> t]
Space == Ch(" ")
Dot == Ch(".")
Slash == Ch("/")
W(c) == <<Ch(c)>>


\* the last position of token c in s, 0 when there is none (str.rfind)
RECURSIVE RFind(_, _)
RFind(s, c) ==
    IF s = <<>> THEN 0
    ELSE IF s[Len(s)] = c THEN Len(s) ELSE RFind(SubSeq(s, 1, Len(s) - 1), c)

\* os.path.split: (head, tail), the head without its trailing slash
PathSplit(f) ==
    LET i == RFind(f, Slash)
    IN  <<IF i <= 1 THEN SubSeq(f, 1, i) ELSE SubSeq(f, 1, i - 1),
          SubSeq(f, i + 1, Len(f))>>

\* os.path.splitext of a name with no slash: the extension starts at the last
\* dot, unless only dots come before it
SplitExt(name) ==
    LET d == RFind(name, Dot)
    IN  IF d > 0 /\ \E k \in 1..(d - 1) : name[k] # Dot
        THEN <<SubSeq(name, 1, d - 1), SubSeq(name, d, Len(name))>>
        ELSE <<name, <<>>>>

\* os.path.join(head, tail)
PathJoin(h, t) ==
    IF h = <<>> THEN t
    ELSE IF h[Len(h)] = Slash THEN h \o t
    ELSE h \o <<Slash>> \o t

\* new_file_name of move_files for file f at timestamp t
NewFileName(f, t) ==
    LET sp == PathSplit(f)
        se == SplitExt(sp[2])
    IN  PathJoin(sp[1], se[1] \o <<Ts(t)>> \o se[2])

\* sep.join(words)
RECURSIVE JoinWith(_, _)
JoinWith(words, sep) ==
    IF words = <<>> THEN <<>>
    ELSE IF Len(words) = 1 THEN words[1]
    ELSE words[1] \o <<sep>> \o JoinWith(Tail(words), sep)

\* " ".join(cmd)
JoinArgs(cmd) == JoinWith(cmd, Space)

\* str.split(sep): the pieces of text between separators, empty ones included
RECURSIVE SplitFrom(_, _, _)
SplitFrom(text, sep, cur) ==
    IF text = <<>> THEN <<cur>>
    ELSE IF Head(text) = sep THEN <<cur>> \o SplitFrom(Tail(text), sep, <<>>)
    ELSE SplitFrom(Tail(text), sep, Append(cur, Head(text)))
SplitAll(text, sep) == SplitFrom(text, sep, <<>>)

NonEmpty(w) == w # <<>>
\* [f for f in text.split(sep) if len(f) > 0]
SplitOn(text, sep) == SelectSeq(SplitAll(text, sep), NonEmpty)

\* the words the shell makes of a command line: split at blanks, no empty word
ShellWords(line) == SplitOn(line, Space)

Newline == Ch("\\n")
Nul == Ch("\\0")
IsWhite(tok) == tok \in {Space, Newline}

\* str.strip(): leading and trailing whitespace removed
RECURSIVE LStrip(_)
LStrip(s) == IF s # <<>> /\ IsWhite(Head(s)) THEN LStrip(Tail(s)) ELSE s
RECURSIVE RStrip(_)
RStrip(s) ==
    IF s # <<>> /\ IsWhite(s[Len(s)]) THEN RStrip(SubSeq(s, 1, Len(s) - 1)) ELSE s
Strip(s) == RStrip(LStrip(s))

\* the output of a git listing command: each path followed by the terminator
RECURSIVE Listing(_, _)
Listing(paths, term) ==
    IF paths = <<>> THEN <<>>
    ELSE Head(paths) \o <<term>> \o Listing(Tail(paths), term)


\* ------------------------------------------------------------------ paths
\* byte order of the first character of a token, as git sorts path names
Code(tok) ==
    CASE tok.c = " " -> 32
      [] tok.c = "." -> 46
      [] tok.c = "/" -> 47
      [] tok.c = "__ts" -> 95
      [] tok.c = "d" -> 100
      [] tok.c = "m" -> 109
      [] tok.c = "n" -> 110
      [] tok.c = "x" -> 120
      [] OTHER -> 127

TokLess(a, b) == Code(a) < Code(b) \/ (Code(a) = Code(b) /\ a.t < b.t)

RECURSIVE PathLess(_, _)
PathLess(a, b) ==
    IF a = <<>> THEN b # <<>>
    ELSE IF b = <<>> THEN FALSE
    ELSE IF Head(a) = Head(b) THEN PathLess(Tail(a), Tail(b))
    ELSE TokLess(Head(a), Head(b))

\* the paths of S in git's output order
RECURSIVE SortPaths(_)
SortPaths(S) ==
    IF S = {} THEN <<>>
    ELSE LET m == CHOOSE x \in S : \A y \in S \ {x} : PathLess(x, y)
         IN  <<m>> \o SortPaths(S \ {m})

\* pathspec s names path p: p itself, or p lies in directory s
Under(s, p) ==
    \/ p = s
    \/ Len(p) > Len(s) /\ SubSeq(p, 1, Len(s)) = s /\ p[Len(s) + 1] = Slash

RECURSIVE SelectSeqIn(_, _)
SelectSeqIn(s, S) ==
    IF s = <<>> THEN <<>>
    ELSE (IF Head(s) \in S THEN <<Head(s)>> ELSE <<>>) \o SelectSeqIn(Tail(s), S)

RECURSIVE SelectSeqNotIn(_, _)
SelectSeqNotIn(s, S) ==
    IF s = <<>> THEN <<>>
    ELSE (IF Head(s) \notin S THEN <<Head(s)>> ELSE <<>>) \o SelectSeqNotIn(Tail(s), S)

Range(s) == {s[k] : k \in 1..Len(s)}

RECURSIVE Repeat(_, _)
Repeat(x, n) == IF n = 0 THEN <<>> ELSE <<x>> \o Repeat(x, n - 1)

\* ------------------------------------------------------------------ trees
\* A tree (a commit's tree, the index, the working tree) maps the paths it
\* holds to their content.
None == "none"
EmptyTree == <<>>
Get(t, p) == IF p \in DOMAIN t THEN t[p] ELSE None
Del(t, p) == [q \in DOMAIN t \ {p} |-> t[q]]
Put(t, p, c) == [q \in DOMAIN t \cup {p} |-> IF q = p THEN c ELSE t[q]]
Store(t, p, c) == IF c = None THEN Del(t, p) ELSE Put(t, p, c)

\* ------------------------------------------------------------------ git
\* The repository: working tree wt, index idx, the trees of HEAD, of the local
\* branch, of origin/<branch> and of their merge base, the name-status lines
\* of the commits HEAD..origin/<branch> (newest first), whether HEAD has
\* commits origin lacks, whether HEAD is detached, the unmerged paths and
\* whether a merge is unfinished.

\* number of index stages of an unmerged path
Stages(r, p) ==
    (IF p \in DOMAIN r.base THEN 1 ELSE 0) + (IF p \in DOMAIN r.head THEN 1 ELSE 0)
        + (IF p \in DOMAIN r.origin THEN 1 ELSE 0)

Tracked(r) == DOMAIN r.idx \cup r.unmerged

\* git fetch: origin/<branch> moves to the remote tip
GitFetch(r, rem) ==
    [r EXCEPT !.origin = rem.tip, !.range = rem.news \o r.range]

\* git clone --branch: a fresh checkout of the remote tip
GitClone(rem) ==
    [wt |-> rem.tip, idx |-> rem.tip, head |-> rem.tip, branch |-> rem.tip,
     base |-> rem.tip, origin |-> rem.tip, range |-> <<>>, ahead |-> FALSE,
     detached |-> FALSE, unmerged |-> {}, merging |-> FALSE]

\* git ls-files --deleted -z: each tracked path missing from the working tree,
\* once per index stage, each followed by NUL
LsFilesDeleted(r) ==
    LET gone == SortPaths({p \in Tracked(r) : p \notin DOMAIN r.wt})
        F[k \in 0..Len(gone)] ==
            IF k = 0 THEN <<>>
            ELSE F[k - 1] \o Repeat(gone[k],
                     IF gone[k] \in r.unmerged THEN Stages(r, gone[k]) ELSE 1)
    IN  F[Len(gone)]

\* git ls-files --others --exclude-standard
LsFilesOthers(r) == SortPaths({p \in DOMAIN r.wt : p \notin Tracked(r)})

\* git ls-tree -r <branch> --name-only
LsTree(r) == SortPaths(DOMAIN r.branch)

\* git diff --exit-code <args>: 128 when an argument is no path of the working
\* tree, 1 when a named path differs between index and working tree or is
\* unmerged with one side missing, else 0
DiffExit(r, args) ==
    IF \E k \in 1..Len(args) : ~ \E p \in DOMAIN r.wt : Under(args[k], p)
    THEN 128
    ELSE IF \E k \in 1..Len(args) :
              \/ \E p \in DOMAIN r.idx : Under(args[k], p) /\ Get(r.wt, p) # r.idx[p]
              \/ \E p \in r.unmerged : /\ Under(args[k], p)
                                        /\ ~ (p \in DOMAIN r.head /\ p \in DOMAIN r.origin)
         THEN 1
         ELSE 0

AllPaths(r) ==
    DOMAIN r.base \cup DOMAIN r.head \cup DOMAIN r.origin \cup DOMAIN r.idx

\* Moving the checkout from HEAD's tree to tree T (a switch or a fast-forward):
\* git refuses when a path that changes is locally modified or an untracked
\* file is in the way; local changes to paths that stay are carried over.
TwoWayBlocked(r, T, p) ==
    LET h == Get(r.head, p)  t == Get(T, p)  i == Get(r.idx, p)  w == Get(r.wt, p)
    IN  IF i = h
        THEN h # t /\ w # None /\ w # i
        ELSE i # t /\ h # t

TwoWayOk(r, T) ==
    r.unmerged = {} /\ \A p \in AllPaths(r) : ~ TwoWayBlocked(r, T, p)

TwoWay(r, T) ==
    LET upd == {p \in AllPaths(r) : Get(r.idx, p) = Get(r.head, p)
                                      /\ Get(r.head, p) # Get(T, p)}
        keepI == DOMAIN r.idx \ upd
        keepW == DOMAIN r.wt \ upd
        new == upd \cap DOMAIN T
    IN  [r EXCEPT
           !.idx = [p \in keepI \cup new |-> IF p \in new THEN T[p] ELSE r.idx[p]],
           !.wt = [p \in keepW \cup new |-> IF p \in new THEN T[p] ELSE r.wt[p]]]

\* git checkout <ref> -- (no path): HEAD is detached at origin/<branch>
GitSwitch(r) ==
    IF TwoWayOk(r, r.origin)
    THEN [rc |-> 0,
          repo |-> [TwoWay(r, r.origin) EXCEPT !.head = r.origin, !.base = r.origin,
                       !.range = <<>>, !.ahead = FALSE, !.detached = TRUE,
                       !.merging = FALSE]]
    ELSE [rc |-> 1, repo |-> r]

\* git checkout <ref> -- <pathspec>...: every pathspec must name a path of the
\* ref's tree; those paths are written to the index and the working tree
GitCheckoutPaths(r, specs) ==
    LET hit == {p \in DOMAIN r.origin : \E k \in 1..Len(specs) : Under(specs[k], p)}
    IN  IF \E k \in 1..Len(specs) : ~ \E p \in DOMAIN r.origin : Under(specs[k], p)
        THEN [rc |-> 1, repo |-> r]
        ELSE [rc |-> 0,
              repo |-> [r EXCEPT
                 !.idx = [p \in DOMAIN r.idx \cup hit |->
                              IF p \in hit THEN r.origin[p] ELSE r.idx[p]],
                 !.wt = [p \in DOMAIN r.wt \cup hit |->
                              IF p \in hit THEN r.origin[p] ELSE r.wt[p]],
                 !.unmerged = r.unmerged \ hit]]

\* git checkout <argv>, argv = <<ref, "--", pathspec...>>
GitCheckout(r, argv) ==
    IF Len(argv) > 2 THEN GitCheckoutPaths(r, SubSeq(argv, 3, Len(argv)))
    ELSE GitSwitch(r)

\* the three-way result for one path; Conflict when both sides changed it
\* differently and no -X option settles it
Conflict == "conflict"
Merge3(b, h, t, favour) ==
    IF h = t THEN h
    ELSE IF b = h THEN t
    ELSE IF b = t THEN h
    ELSE IF h # None /\ t # None /\ favour = "theirs" THEN t
    ELSE IF h # None /\ t # None /\ favour = "ours" THEN h
    ELSE Conflict

\* the -X option of a merge command line
Favour(argv) ==
    IF \E k \in 1..Len(argv) : argv[k] = W("-Xtheirs") THEN "theirs"
    ELSE IF \E k \in 1..Len(argv) : argv[k] = W("-Xours") THEN "ours"
    ELSE "none"

Markers == "X"

\* a true merge of origin/<branch> into HEAD
GitMerge3(r, favour) ==
    LET P == DOMAIN r.base \cup DOMAIN r.head \cup DOMAIN r.origin
        R(p) == Merge3(Get(r.base, p), Get(r.head, p), Get(r.origin, p), favour)
        conf == {p \in P : R(p) = Conflict}
        chg == {p \in P \ conf : R(p) # Get(r.head, p)}
        dirty(p) == Get(r.wt, p) # None /\ Get(r.wt, p) # Get(r.head, p)
        both == {p \in conf : p \in DOMAIN r.head /\ p \in DOMAIN r.origin}
        theirs == {p \in conf : p \notin DOMAIN r.head}
        ours == {p \in conf : p \in DOMAIN r.head /\ p \notin DOMAIN r.origin}
        put == {p \in chg : R(p) # None}
        rem == {p \in chg : R(p) = None}
        idx2 == [p \in ((DOMAIN r.idx \ conf) \ rem) \cup put |->
                    IF p \in put THEN R(p) ELSE r.idx[p]]
        wt2 == [p \in (DOMAIN r.wt \ rem) \cup put \cup both \cup theirs |->
                    IF p \in put THEN R(p)
                    ELSE IF p \in both THEN Markers
                    ELSE IF p \in theirs THEN r.origin[p]
                    ELSE r.wt[p]]
        tree == [p \in {q \in P : R(q) # None} |-> R(p)]
    IN  IF r.idx # r.head THEN [rc |-> 2, repo |-> r]
        ELSE IF \E p \in (conf \ ours) \cup chg : dirty(p) THEN [rc |-> 1, repo |-> r]
        ELSE IF conf # {}
        THEN [rc |-> 1,
              repo |-> [r EXCEPT !.idx = idx2, !.wt = wt2, !.unmerged = conf,
                                 !.merging = TRUE]]
        ELSE [rc |-> 0,
              repo |-> [r EXCEPT !.idx = idx2, !.wt = wt2, !.head = tree,
                                 !.base = r.origin, !.range = <<>>,
                                 !.branch = IF r.detached THEN r.branch ELSE tree]]

\* git merge <argv> origin/<branch>
GitMerge(r, argv) ==
    IF r.unmerged # {} \/ r.merging THEN [rc |-> 128, repo |-> r]
    ELSE IF r.range = <<>> THEN [rc |-> 0, repo |-> r]
    ELSE IF ~ r.ahead
    THEN IF TwoWayOk(r, r.origin)
         THEN [rc |-> 0,
               repo |-> [TwoWay(r, r.origin) EXCEPT !.head = r.origin,
                            !.base = r.origin, !.range = <<>>,
                            !.branch = IF r.detached THEN r.branch ELSE r.origin]]
         ELSE [rc |-> 1, repo |-> r]
    ELSE GitMerge3(r, Favour(argv))


\* ------------------------------------------------------------------ file system
\* A directory is a sequence of names.  The command-line argument repo_dir is
\* text: absolute when it starts with a slash, else relative to the process's
\* working directory.
Home == <<W("home")>>
RepoPath == <<W("home"), W("r")>>

NotDot(w) == w # <<Dot>>
IsAbs(text) == text # <<>> /\ text[1] = Slash
Resolve(cwd, text) ==
    LET parts == SelectSeq(SplitOn(text, Slash), NotDot)
    IN  IF IsAbs(text) THEN parts ELSE cwd \o parts

IsPrefix(a, b) == Len(a) <= Len(b) /\ SubSeq(b, 1, Len(a)) = a

\* os.path.exists / chdir target: the directory dir exists
DirExists(dir, ex, r) ==
    \/ IsPrefix(dir, Home)
    \/ /\ ex
       /\ IsPrefix(RepoPath, dir)
       /\ \/ dir = RepoPath
          \/ \E p \in DOMAIN r.wt :
                LET c == SplitOn(p, Slash)
                    d == SubSeq(dir, Len(RepoPath) + 1, Len(dir))
                IN  Len(d) < Len(c) /\ SubSeq(c, 1, Len(d)) = d

\* os.path.relpath(path, start) with the process in directory cwd
RelPath(path, start, cwd) ==
    LET a == cwd \o SelectSeq(SplitOn(path, Slash), NotDot)
        b == Resolve(cwd, start)
        common == {n \in 0..Len(b) : n <= Len(a) /\ SubSeq(a, 1, n) = SubSeq(b, 1, n)}
        k == CHOOSE n \in common : \A m \in common : m <= n
        comps == Repeat(<<Dot, Dot>>, Len(b) - k) \o SubSeq(a, k + 1, Len(a))
    IN  IF comps = <<>> THEN <<Dot>> ELSE JoinWith(comps, Slash)

\* ------------------------------------------------------------------ scenario
P1 == <<Ch("d"), Slash, Ch("n"), Dot, Ch("x")>>
P2 == <<Ch("m"), Space, Ch("n")>>
Paths == {P1, P2}

ArgDot == <<Dot>>
ArgRel == W("r")
ArgAbs == <<Slash>> \o W("home") \o <<Slash>> \o W("r")
BranchName == W("main")
GitUrl == W("U")
OriginRef == W("origin/main")

\* what a path may look like locally: content at the merge base, in the local
\* commit, and in the working tree
LocalChoices ==
    {c \in [b : {None, "B"}, h : {None, "B", "L"}, w : {None, "B", "L", "W"}] :
        /\ c.h \in {c.b, "L", None}
        /\ c.w \in {c.h, "W", None}}

TreeOf(f, S) == [p \in S |-> f[p]]

\* the upstream histories of at most n commits on top of tree t, each commit
\* writing or deleting one path: the tip and the name-status lines, newest
\* first.  A commit writes new content, or brings a path back to what it held
\* in the tree t0 the history started from.
RECURSIVE Histories(_, _, _)
Histories(n, t, t0) ==
    {[tip |-> t, news |-> <<>>]} \cup
    (IF n = 0 THEN {}
     ELSE UNION {
        LET t1 == Store(t, p, c)
            st == IF c = None THEN "D" ELSE IF p \in DOMAIN t THEN "M" ELSE "A"
        IN  {[tip |-> h.tip, news |-> h.news \o <<[st |-> st, p |-> p]>>] :
                h \in Histories(n - 1, t1, t0)}
        : <<p, c>> \in {x \in Paths \X {"U", None} : x[2] # Get(t, x[1])}
                      \cup {x \in Paths \X {"B"} : Get(t0, x[1]) = "B" /\ Get(t, x[1]) # "B"}})

NoRepo == GitClone([tip |-> EmptyTree])


\* ------------------------------------------------------------------ state
VARIABLES
    repo_dir,   \* the repo_dir argument (text)
    launch,     \* the directory each run is started in
    cwd,        \* the working directory of the running process
    exists,     \* the clone directory exists on disk
    repo,       \* the clone: working tree and git state
    remote,     \* the upstream repository: its tip and what origin/<branch> lacks
    pc,         \* where the run is
    run,        \* number of the current run
    now,        \* the clock, in seconds
    files,      \* move_files: files still to look at
    deleted,    \* restore_deleted_files: deleted_files still to restore
    pre,        \* the clone as prepare_clone found it
    lists,      \* the four lists prepare_clone computed
    log,        \* the log lines written so far
    cmds,       \* the commands run through execute_cmd, with their exit status
    existed,    \* per run, what os.path.exists(repo_dir) answered
    exit        \* per finished run, the exit status of the process

vars == <<repo_dir, launch, cwd, exists, repo, remote, pc, run, now, files,
          deleted, pre, lists, log, cmds, existed, exit>>

Line(lvl, msg, f, to) == [run |-> run, lvl |-> lvl, msg |-> msg, f |-> f, to |-> to]
Cmd(argv, rc) == [run |-> run, argv |-> argv, rc |-> rc]
NoLists == [new_up |-> <<>>, mod_up |-> <<>>, mod_loc |-> <<>>, untracked |-> <<>>]

Init ==
    /\ \E a \in {<<ArgDot, RepoPath>>, <<ArgRel, Home>>, <<ArgAbs, Home>>} :
          /\ repo_dir = a[1]
          /\ launch = a[2]
          /\ cwd = a[2]
    /\ exists \in BOOLEAN
    /\ repo_dir = ArgDot => exists
    /\ repo_dir = ArgAbs => ~ exists
    /\ \E loc \in [Paths -> LocalChoices] :
          LET base == TreeOf([p \in Paths |-> loc[p].b], {p \in Paths : loc[p].b # None})
              head == TreeOf([p \in Paths |-> loc[p].h], {p \in Paths : loc[p].h # None})
              wt == TreeOf([p \in Paths |-> loc[p].w], {p \in Paths : loc[p].w # None})
          IN  /\ ~ exists => head = base /\ wt = base
              /\ remote \in Histories(MaxCommits, base, base)
              /\ repo = IF exists
                        THEN [wt |-> wt, idx |-> head, head |-> head, branch |-> head,
                              base |-> base, origin |-> base, range |-> <<>>,
                              ahead |-> head # base, detached |-> FALSE,
                              unmerged |-> {}, merging |-> FALSE]
                        ELSE NoRepo
    /\ pc = "idle"
    /\ run = 0
    /\ now = 1
    /\ files = <<>>
    /\ deleted = <<>>
    /\ pre = NoRepo
    /\ lists = NoLists
    /\ log = <<>>
    /\ cmds = <<>>
    /\ existed = <<>>
    /\ exit = <<>>

\* ------------------------------------------------------------------ pull.py
\* execute_cmd: the command line handed to os.system; its exit status is
\* dropped and nothing is raised
CommandLine(cmd) == ShellWords(JoinArgs(cmd))
ExecuteCmdRaises(rc) == FALSE

\* the git subcommand of a command line and the words after it
SubCommand(argv) ==
    LET k == CHOOSE i \in 2..Len(argv) :
                /\ argv[i] \in {W("clone"), W("fetch"), W("checkout"), W("merge")}
                /\ \A j \in 2..(i - 1) : argv[j] \notin
                       {W("clone"), W("fetch"), W("checkout"), W("merge")}
    IN  [name |-> argv[k], args |-> SubSeq(argv, k + 1, Len(argv))]

\* os.system of a checkout or merge command line, run in the clone
System(r, argv) ==
    LET sc == SubCommand(argv)
    IN  IF sc.name = W("checkout")
        THEN GitCheckout(r, sc.args)
        ELSE GitMerge(r, sc.args)

\* check_upstream(m) of find_upstream_updates
FindUpstreamUpdates(r, m) ==
    LET hit(l) == l.st = m
        lines == SelectSeq(r.range, hit)
    IN  [k \in 1..Len(lines) |-> RelPath(lines[k].p, repo_dir, cwd)]

\* find_mofified_local_files
FindModifiedLocalFiles(r) ==
    LET tracked_files == SplitOn(Listing(LsTree(r), Newline), Newline)
        mod(f) == DiffExit(r, SubSeq(ShellWords(
                     JoinArgs(<<W("git"), W("diff"), W("--exit-code"), f>>)), 4,
                     Len(ShellWords(JoinArgs(<<W("git"), W("diff"), W("--exit-code"), f>>))))) # 0
    IN  SelectSeq(tracked_files, mod)

\* find_untracked_local_files
FindUntrackedLocalFiles(r) == SplitOn(Listing(LsFilesOthers(r), Newline), Newline)

\* files_to_move of prepare_clone (the second assignment replaces the first)
FilesToMove(l) ==
    SelectSeqNotIn(l.mod_loc, Range(l.mod_up)) \o SelectSeqIn(l.untracked, Range(l.new_up))

\* deleted_files of restore_deleted_files
DeletedFiles(r) == SplitAll(Strip(Listing(LsFilesDeleted(r), Nul)), Nul)

MergeCmd ==
    <<W("git"), W("-c"), W("user.email=archive@stsci.edu"), W("-c"),
      W("user.name=git-sync"), W("merge"), W("--no-edit"), OriginRef>>

\* the branch of sync taken the wrong way round
SyncBranchSwapped(found) == IF found THEN "init_repo" ELSE "update_remotes"
\* the branch of sync on os.path.exists(self.repo_dir)
SyncBranch(found) == IF found THEN "update_remotes" ELSE "init_repo"

\* sync: a new run starts; the clone is looked for
Sync ==
    /\ pc \in {"idle", "done", "crashed"}
    /\ run < MaxRuns
    /\ run' = run + 1
    /\ existed' = Append(existed, DirExists(Resolve(launch, repo_dir), exists, repo))
    /\ pc' = SyncBranch(DirExists(Resolve(launch, repo_dir), exists, repo))
    /\ cwd' = IF DirExists(Resolve(launch, repo_dir), exists, repo)
              THEN Resolve(launch, repo_dir) ELSE launch
    /\ files' = <<>>
    /\ deleted' = <<>>
    /\ pre' = NoRepo
    /\ lists' = NoLists
    /\ UNCHANGED <<repo_dir, launch, exists, repo, remote, now, log, cmds, exit>>

\* init_repo, then the end of sync
InitRepo ==
    /\ pc = "init_repo"
    /\ \E ok \in BOOLEAN :
          LET argv == CommandLine(<<W("git"), W("clone"), W("--branch"), BranchName,
                                    GitUrl, repo_dir>>)
          IN  /\ cmds' = Append(cmds, Cmd(argv, IF ok THEN 0 ELSE 128))
              /\ exists' = (exists \/ ok)
              /\ repo' = IF ok THEN GitClone(remote) ELSE repo
              /\ remote' = IF ok THEN [remote EXCEPT !.news = <<>>] ELSE remote
    /\ log' = log \o <<Line("info", "Cloning", repo_dir, <<>>),
                       Line("info", "Initialized", repo_dir, <<>>),
                       Line("info", "Done", <<>>, <<>>)>>
    /\ pc' = "done"
    /\ exit' = Append(exit, 0)
    /\ UNCHANGED <<repo_dir, launch, cwd, run, now, files, deleted, pre, lists, existed>>

\* update_remotes
UpdateRemotes ==
    /\ pc = "update_remotes"
    /\ \E ok \in BOOLEAN :
          /\ cmds' = Append(cmds, Cmd(CommandLine(<<W("git"), W("fetch")>>),
                                      IF ok THEN 0 ELSE 128))
          /\ repo' = IF ok THEN GitFetch(repo, remote) ELSE repo
          /\ remote' = IF ok THEN [remote EXCEPT !.news = <<>>] ELSE remote
    /\ log' = Append(log, Line("info", "Fetching", GitUrl, <<>>))
    /\ pc' = "prepare_clone"
    /\ UNCHANGED <<repo_dir, launch, cwd, exists, run, now, files, deleted, pre,
                   lists, existed, exit>>

\* prepare_clone up to the call of move_files; subprocess.check_output with
\* cwd=repo_dir raises when repo_dir names no directory from where the process is
PrepareClone ==
    /\ pc = "prepare_clone"
    /\ log' = Append(log, Line("info", "GetList", <<>>, <<>>))
    /\ IF DirExists(Resolve(cwd, repo_dir), exists, repo)
       THEN LET l == [new_up |-> FindUpstreamUpdates(repo, "A"),
                      mod_up |-> FindUpstreamUpdates(repo, "M"),
                      mod_loc |-> FindModifiedLocalFiles(repo),
                      untracked |-> FindUntrackedLocalFiles(repo)]
            IN  /\ lists' = l
                /\ files' = FilesToMove(l)
                /\ pc' = "move_files"
                /\ exit' = exit
       ELSE /\ pc' = "crashed"
            /\ exit' = Append(exit, 1)
            /\ UNCHANGED <<lists, files>>
    /\ pre' = repo
    /\ UNCHANGED <<repo_dir, launch, cwd, exists, repo, remote, run, now, deleted, cmds,
                   existed>>

\* os.path.exists(f)
PathExists(r, f) == \E p \in DOMAIN r.wt : Under(f, p)

\* shutil.move(f, new_file_name): a rename, which replaces a file already there
Move(wt, f, to) == Put(Del(wt, f), to, wt[f])

\* move_files: one turn of the loop
MoveFile ==
    /\ pc = "move_files"
    /\ files # <<>>
    /\ LET f == Head(files)
       IN  IF PathExists(repo, f)
           THEN \E t \in now..MaxTime :
                   /\ now' = t
                   /\ repo' = [repo EXCEPT !.wt = Move(repo.wt, f, NewFileName(f, t))]
                   /\ log' = Append(log, Line("info", "Moved", f, NewFileName(f, t)))
           ELSE UNCHANGED <<now, repo, log>>
    /\ files' = Tail(files)
    /\ UNCHANGED <<repo_dir, launch, cwd, exists, remote, pc, run, deleted, pre,
                   lists, cmds, existed, exit>>

\* restore_deleted_files: the query for the deleted files
RestoreQuery ==
    /\ pc = "move_files"
    /\ files = <<>>
    /\ log' = Append(log, Line("info", "Restoring", <<>>, <<>>))
    /\ deleted' = DeletedFiles(repo)
    /\ pc' = "restore"
    /\ UNCHANGED <<repo_dir, launch, cwd, exists, repo, remote, run, now, files, pre,
                   lists, cmds, existed, exit>>

\* restore_deleted_files: one turn of the loop
RestoreFile ==
    /\ pc = "restore"
    /\ deleted # <<>>
    /\ LET f == Head(deleted)
           argv == CommandLine(<<W("git"), W("checkout"), OriginRef, W("--"), f>>)
           res == System(repo, argv)
       IN  /\ repo' = res.repo
           /\ cmds' = Append(cmds, Cmd(argv, res.rc))
           /\ log' = Append(log, IF ExecuteCmdRaises(res.rc)
                                 THEN Line("warning", "NotUpstream", f, <<>>)
                                 ELSE Line("debug", "Restored", f, <<>>))
    /\ deleted' = Tail(deleted)
    /\ UNCHANGED <<repo_dir, launch, cwd, exists, remote, pc, run, now, files, pre,
                   lists, existed, exit>>

\* merge, then the end of sync
Merge ==
    /\ pc = "restore"
    /\ deleted = <<>>
    /\ LET argv == CommandLine(MergeCmd)
           res == System(repo, argv)
       IN  /\ repo' = res.repo
           /\ cmds' = Append(cmds, Cmd(argv, res.rc))
    /\ log' = log \o <<Line("info", "Merging", BranchName, <<>>),
                       Line("info", "Done", <<>>, <<>>)>>
    /\ pc' = "done"
    /\ exit' = Append(exit, 0)
    /\ UNCHANGED <<repo_dir, launch, cwd, exists, remote, run, now, files, deleted,
                   pre, lists, existed>>

Next ==
    \/ Sync
    \/ InitRepo
    \/ UpdateRemotes
    \/ PrepareClone
    \/ MoveFile
    \/ RestoreQuery
    \/ RestoreFile
    \/ Merge

Spec == Init /\ [][Next]_vars

\* ------------------------------------------------------------------ properties
Lines(r) == {log[k] : k \in {j \in 1..Len(log) : log[j].run = r}}
Moves(r) == {l \in Lines(r) : l.msg = "Moved"}
Ran(r, name) == {k \in 1..Len(cmds) : cmds[k].run = r /\ SubCommand(cmds[k].argv).name = W(name)}
Ended(r) == r <= Len(exit)

\* what prepare_clone was to see in the clone
ModifiedLocal(p) == p \in DOMAIN pre.idx /\ p \in DOMAIN pre.wt /\ pre.wt[p] # pre.idx[p]
UntrackedLocal(p) == p \in DOMAIN pre.wt /\ p \notin Tracked(pre)
UpstreamStatus(p, st) == \E k \in 1..Len(pre.range) : pre.range[k] = [st |-> st, p |-> p]
BeforeMerge == pc = "restore" /\ deleted = <<>>

\* C1: when merge is about to run, every tracked file that was locally
\* modified and present in the working tree has been renamed in this run,
\* whether or not the same path was modified upstream.
C1_ModifiedAlwaysRenamed ==
    BeforeMerge =>
        \A p \in DOMAIN pre.wt : ModifiedLocal(p) => \E l \in Moves(run) : l.f = p

\* C2: once a run on an existing clone has ended, every path that was added
\* upstream and was an untracked local file has been renamed in that run, holds
\* the upstream content, and its backup lies in the same directory and holds
\* the former local content - whatever the repo_dir argument.
C2_UntrackedCollisionBackedUp ==
    (run >= 1 /\ Ended(run) /\ existed[run]) =>
        \A p \in DOMAIN pre.wt :
            (UpstreamStatus(p, "A") /\ UntrackedLocal(p)) =>
                /\ Get(repo.wt, p) = Get(repo.origin, p)
                /\ \E l \in Moves(run) :
                      /\ l.f = p
                      /\ PathSplit(l.to)[1] = PathSplit(p)[1]
                      /\ Get(repo.wt, l.to) = pre.wt[p]

\* the paths restore_deleted_files was given in run r
Reported(r) == {l.f : l \in {x \in Lines(r) : x.msg \in {"Restored", "NotUpstream"}}} \ {<<>>}

\* C3: once the run has ended, every path that was reported deleted to
\* restore_deleted_files and exists at the upstream tip is back in the working
\* tree with the upstream content.
C3_DeletedRestored ==
    (run >= 1 /\ Ended(run)) =>
        \A p \in Reported(run) :
            p \in DOMAIN repo.origin => Get(repo.wt, p) = repo.origin[p]

\* the paths both sides changed, differently, and both still hold
BothTouched(r) ==
    {p \in DOMAIN r.head \cap DOMAIN r.origin :
        /\ Get(r.base, p) # r.head[p]
        /\ Get(r.base, p) # r.origin[p]
        /\ r.head[p] # r.origin[p]}

\* C4: a merge step that changes the clone leaves every path that both sides
\* changed with the upstream content.
C4_UpstreamWins ==
    [][(Merge /\ repo' # repo) =>
          \A p \in BothTouched(repo) : Get(repo'.wt, p) = repo.origin[p]]_vars

\* C5: when the clone, fetch or merge command of a run exits nonzero, no
\* later command runs in that run, "Done." is not logged for it and the
\* process exits nonzero.
C5_FailureAborts ==
    \A k \in 1..Len(cmds) :
        (cmds[k].rc # 0 /\ SubCommand(cmds[k].argv).name \in {W("clone"), W("fetch"), W("merge")})
        => /\ \A j \in (k + 1)..Len(cmds) : cmds[j].run # cmds[k].run
           /\ \A l \in Lines(cmds[k].run) : l.msg # "Done"
           /\ Ended(cmds[k].run) => exit[cmds[k].run] # 0

\* C6: a turn of the restore loop for a path that the upstream tip no longer
\* holds logs a warning for the path, not "Restored", leaves the path absent
\* and goes on with the rest of the list.
C6_RestoreWarning ==
    [][(pc = "restore" /\ deleted # <<>> /\ Head(deleted) # <<>>
            /\ Head(deleted) \notin DOMAIN repo.origin)
        => /\ log' = Append(log, Line("warning", "NotUpstream", Head(deleted), <<>>))
           /\ Head(deleted) \notin DOMAIN repo'.wt
           /\ deleted' = Tail(deleted)
           /\ pc' = "restore"]_vars

\* C7: when the first run is on an existing clone and fetches, a second run
\* right after it renames nothing and its merge leaves no conflict.
C7_Idempotent ==
    (run >= 2 /\ existed[1] /\ \E k \in Ran(1, "fetch") : cmds[k].rc = 0) =>
        /\ Moves(2) = {}
        /\ Ended(2) => \A k \in Ran(2, "merge") : cmds[k].rc = 0

\* C8: a finished run has run the clone command exactly when repo_dir did not
\* exist at its start; such a run runs no other command, renames and restores
\* nothing, and ends with "Done." and exit status 0.
C8_CloneIffMissing ==
    \A r \in 1..run :
        /\ Ran(r, "clone") # {} => ~ existed[r]
        /\ Ended(r) => (Ran(r, "clone") # {} <=> ~ existed[r])
        /\ Ran(r, "clone") # {} =>
              /\ \A k \in 1..Len(cmds) : cmds[k].run = r => k \in Ran(r, "clone")
              /\ \A l \in Lines(r) : l.msg \in {"Cloning", "Initialized", "Done"}
              /\ Ended(r)
              /\ exit[r] = 0
              /\ \E l \in Lines(r) : l.msg = "Done"

\* C8 witness: a run that found no clone has ended
C8_Witness ==
    /\ run >= 1
    /\ Ended(run)
    /\ ~ existed[run]
    /\ Ran(run, "clone") # {}

\* C9: every rename of move_files goes to a path at which no file exists.
C9_RenameTargetFree ==
    [][(pc = "move_files" /\ log' # log) => log'[Len(log')].to \notin DOMAIN repo.wt]_vars

\* C10: every checkout command of restore_deleted_files names exactly one
\* path, one that the index lists and the working tree lacked, and no path is
\* checked out twice in a run.
C10_OneCheckoutPerPath ==
    \A k \in Ran(run, "checkout") :
        LET a == SubCommand(cmds[k].argv).args
        IN  /\ Len(a) = 3
            /\ a[3] \in Reported(run)
            /\ \A j \in Ran(run, "checkout") : cmds[j].argv = cmds[k].argv => j = k
====
